---- MODULE Spec2Model ----
(***************************************************************************)
(* The transcription lifecycle of telly-spelly (src/transcriber.py): the   *)
(* WhisperTranscriber manager on the UI thread, its TranscriptionWorker    *)
(* threads, the queued delivery of the workers' signals and the single-shot*)
(* cleanup timer.                                                          *)
(*                                                                         *)
(* Text is a sequence of one-character strings, so that trimming, joining  *)
(* and the case-insensitive replacements are computed character by         *)
(* character as the code computes them.                                    *)
(***************************************************************************)
EXTENDS Integers, Sequences, FiniteSets, TLC

VARIABLES
    model,          \* WhisperTranscriber.model: Current (the handle it holds) or None
    worker,         \* WhisperTranscriber.worker: a worker slot, or NoWorker
    count,          \* WhisperTranscriber._transcription_count
    custom_words,   \* WhisperTranscriber.custom_words (cached vocabulary)
    timer,          \* _cleanup_timer is armed
    live,           \* how many WhisperModel objects have their native model loaded
    workers,        \* the TranscriptionWorker objects, by slot
    queue,          \* queued signal emissions not yet delivered, oldest first
    mgr,            \* where the UI thread is: "idle" or inside cleanup()'s wait
    lastCall,       \* the manager call the last step was, with its result, or ""
    sinceLoad,      \* accepted transcribe_file calls since the last load_model
    loadFailed,     \* load_model has raised since it last returned
    onHandle,       \* workers dispatched on the handle held, since its load
    reloadOwed,     \* the reload inside transcribe_file raised, and no call was accepted since
    doc,            \* the custom-vocabulary document in the configuration directory
    made,           \* how far WhisperTranscriber.__init__ has come
    decoded,        \* the decode result fixed for the job, where one is fixed
    stored,         \* the values the settings store holds, by key
    got,            \* the last Settings.get call and what it returned
    ui,             \* the tray application: recorder, progress window, clipboard
    shortcuts       \* GlobalShortcuts: the keys held, _current_keys, the signals emitted

vars == <<model, worker, count, custom_words, timer, live, workers, queue,
          mgr, lastCall, sinceLoad, loadFailed, onHandle, reloadOwed, doc, made,
          decoded, stored, got, ui, shortcuts>>

\* What the manager's calls and the workers leave alone once __init__ has
\* returned
aux == <<doc, made, decoded, stored, got, ui, shortcuts>>

\* A worker's model is the object it was constructed with: None, the handle
\* the manager holds now (Current), or a handle the manager has released
\* since (Released).
None == "None"
NoWorker == 0       \* self.worker = NoWorker
Current == "current"
Released == "released"
MODEL_RELOAD_INTERVAL == 50

\* Bounds of the model.
MaxWorkers == 2     \* worker objects alive at once
MaxCount == 51      \* the usage counter passes the threshold only while loads fail
StartNear == 2      \* a run starts fresh, or this many calls short of the threshold
MaxEarly == 1       \* calls counted from zero in one run
MaxPending == 1     \* a manager call is made with at most this many emissions undelivered
MaxAge == 1         \* jobs are told apart up to this many dispatches back
MaxDialogs == 1     \* error dialogs open at once
MaxRecordings == 2  \* recordings the tray application hands to an idle manager

Slots == 1..MaxWorkers

----------------------------------------------------------------------------
(* Text helpers *)

IsSpace(c) == c \in {" ", "\n", "\t"}

\* str.lower() on the characters the model draws text from
Lower(c) ==
    CASE c = "U" -> "u"
      [] c = "M" -> "m"
      [] c = "H" -> "h"
      [] c = "T" -> "t"
      [] c = "E" -> "e"
      [] c = "A" -> "a"
      [] OTHER -> c

RECURSIVE LStrip(_)
LStrip(s) == IF s # <<>> /\ IsSpace(Head(s)) THEN LStrip(Tail(s)) ELSE s

RECURSIVE RStrip(_)
RStrip(s) ==
    IF s # <<>> /\ IsSpace(s[Len(s)]) THEN RStrip(SubSeq(s, 1, Len(s) - 1)) ELSE s

\* str.strip()
Strip(s) == RStrip(LStrip(s))

\* The segment texts joined without the trim
RECURSIVE JoinSegmentsUntrimmed(_)
JoinSegmentsUntrimmed(segs) ==
    IF segs = <<>> THEN <<>>
    ELSE IF Len(segs) = 1 THEN segs[1]
    ELSE segs[1] \o <<" ">> \o JoinSegmentsUntrimmed(Tail(segs))

\* " ".join([segment.text.strip() for segment in segments])
RECURSIVE JoinSegments(_)
JoinSegments(segs) ==
    IF segs = <<>> THEN <<>>
    ELSE IF Len(segs) = 1 THEN Strip(segs[1])
    ELSE Strip(segs[1]) \o <<" ">> \o JoinSegments(Tail(segs))

\* The match without re.IGNORECASE
MatchesAtExactCase(text, i, pat) ==
    /\ i + Len(pat) - 1 <= Len(text)
    /\ \A k \in 1..Len(pat) : text[i + k - 1] = pat[k]

\* re.escape(pattern) with re.IGNORECASE matches at position i of text
MatchesAt(text, i, pat) ==
    /\ i + Len(pat) - 1 <= Len(text)
    /\ \A k \in 1..Len(pat) : Lower(text[i + k - 1]) = Lower(pat[k])

\* The replacement string is a template to re.sub: a backslash starts an
\* escape. "\n" and "\\" expand, a group reference or an unknown letter
\* escape raises re.error. BadTemplate marks the raise.
BadTemplate == <<"<re.error>">>

RECURSIVE ExpandTemplate(_)
ExpandTemplate(r) ==
    IF r = <<>> THEN <<>>
    ELSE IF Head(r) # "\\" THEN
        LET rest == ExpandTemplate(Tail(r))
        IN  IF rest = BadTemplate THEN BadTemplate ELSE <<Head(r)>> \o rest
    ELSE IF Len(r) = 1 THEN BadTemplate
    ELSE LET e == r[2]
             rest == ExpandTemplate(Tail(Tail(r)))
         IN  IF rest = BadTemplate THEN BadTemplate
             ELSE IF e = "n" THEN <<"\n">> \o rest
             ELSE IF e = "\\" THEN <<"\\">> \o rest
             ELSE BadTemplate

\* re.sub of a literal pattern: leftmost, non-overlapping matches; the empty
\* pattern matches before every character and at the end.
RECURSIVE SubFrom(_, _, _, _)
SubFrom(text, i, pat, rep) ==
    IF i > Len(text) THEN (IF pat = <<>> THEN rep ELSE <<>>)
    ELSE IF pat = <<>> THEN rep \o <<text[i]>> \o SubFrom(text, i + 1, pat, rep)
    ELSE IF MatchesAt(text, i, pat) THEN rep \o SubFrom(text, i + Len(pat), pat, rep)
    ELSE <<text[i]>> \o SubFrom(text, i + 1, pat, rep)

\* re.sub(re.escape(pattern), replacement, text, flags=re.IGNORECASE)
ReSub(pat, rep, text) ==
    LET t == ExpandTemplate(rep)
    IN  IF t = BadTemplate THEN BadTemplate ELSE SubFrom(text, 1, pat, t)

\* apply_replacements(text, replacements); replacements is the mapping in
\* insertion order, a sequence of <<pattern, replacement>>.
RECURSIVE apply_replacements(_, _)
apply_replacements(text, replacements) ==
    IF replacements = <<>> THEN text
    ELSE LET t == ReSub(replacements[1][1], replacements[1][2], text)
         IN  IF t = BadTemplate THEN BadTemplate
             ELSE apply_replacements(t, Tail(replacements))

----------------------------------------------------------------------------
(* Inputs *)

\* The values json.load can return, by Python type. A str is its characters,
\* a dict its items in insertion order, a list its elements.
Str(s) == [type |-> "str", value |-> s]
Dict(items) == [type |-> "dict", value |-> items]
List(elems) == [type |-> "list", value |-> elems]
Number(n) == [type |-> "int", value |-> n]
Null == [type |-> "NoneType", value |-> <<>>]
\* A key the document does not hold
Absent == [type |-> "absent", value |-> <<>>]

\* len(v) is defined
HasLen(v) == v.type \in {"str", "dict", "list"}

\* bool(v)
Truthy(v) ==
    CASE v.type \in {"str", "dict", "list"} -> v.value # <<>>
      [] v.type = "int" -> v.value # 0
      [] OTHER -> FALSE

\* default_config of load_custom_words
DefaultVocabulary ==
    [hotwords |-> Str(<<>>), replacements |-> Dict(<<>>), initial_prompt |-> Str(<<>>)]

\* The custom_words.json a run can find: none, one json.load rejects, one
\* whose top level is not an object, or an object holding each of the three
\* keys or not
NoDocument(kind) ==
    [file |-> kind, hotwords |-> Absent, replacements |-> Absent, initial_prompt |-> Absent]
HotwordsValues ==
    {Absent, Str(<<>>), Str(<<"u", "m">>), Number(5), Null, List(<<>>), List(<<Str(<<"u", "m">>)>>)}
ReplacementsValues ==
    {Absent, Dict(<<>>), Dict(<< << <<"u", "m">>, <<>> >> >>), Number(5), Str(<<"u">>),
     List(<<Str(<<"u">>)>>)}
InitialPromptValues == {Absent, Str(<<>>), Str(<<"h", "i">>), Null, List(<<>>)}
Documents ==
    {NoDocument("missing"), NoDocument("unparsable"), NoDocument("not an object")} \cup
    [file : {"object"}, hotwords : HotwordsValues, replacements : ReplacementsValues,
     initial_prompt : InitialPromptValues]

\* {**default_config, **config}
Merged(d) ==
    [k \in {"hotwords", "replacements", "initial_prompt"} |->
        IF d[k] = Absent THEN DefaultVocabulary[k] ELSE d[k]]

\* load_custom_words(): the defaults for a missing file and for whatever
\* raises inside the try block, which the merge of a non-mapping and the
\* len() of a value without a length do
load_custom_words(d) ==
    IF d.file # "object" THEN DefaultVocabulary
    ELSE IF \E k \in {"hotwords", "replacements", "initial_prompt"} : ~HasLen(Merged(d)[k])
         THEN DefaultVocabulary
         ELSE Merged(d)

\* The documents the runs of the manager start from: none, and one whose
\* only replacement deletes the filler word "um"
StartDocuments ==
    { NoDocument("missing"),
      [file |-> "object", hotwords |-> Absent,
       replacements |-> Dict(<< << <<"u", "m">>, <<>> >> >>), initial_prompt |-> Absent] }

\* The cached vocabulary: load_custom_words()'s result
Vocabularies == {load_custom_words(d) : d \in StartDocuments}

\* What model.transcribe and the iteration over its segments can produce: an
\* exception, or a list of segment texts.
SegmentLists ==
    { <<>>,
      << <<" ">> >>,
      << <<"U","m">> >> }
DecodeResults ==
    {[raised |-> TRUE, segments |-> <<>>]} \cup
    {[raised |-> FALSE, segments |-> sl] : sl \in SegmentLists}

\* No decode result fixed ahead: each decode draws its own
Undrawn == "undrawn"

----------------------------------------------------------------------------
(* Settings: the validated reads and writes of the settings store. A       *)
(* setting's str is written as one string.                                 *)

VALID_MODELS == {"tiny", "base", "small", "medium", "large", "turbo"}
VALID_LANGUAGES ==
    {"auto", "en", "es", "fr", "de", "it", "pt", "nl", "pl", "ja", "zh", "ru"}

Keys == {"model", "language", "device"}

\* A store that holds none of the keys
NothingStored == [k \in Keys |-> Absent]

\* No Settings.get call made yet
NoGet == [key |-> "", default |-> Null, value |-> Absent, result |-> Null]

\* What QSettings.value can hand back for a key of the store's file: nothing
\* stored, a str, a number, or a list of str (a value written with commas)
ModelValues ==
    {Absent, Str("base"), Str("turbo"), Str("huge"), Number(5), List(<<Str("base")>>)}
LanguageValues ==
    {Absent, Str("auto"), Str("en"), Str("xx"), Number(5), List(<<Str("en"), Str("fr")>>)}
DeviceValues == {Absent, Str("cpu")}
Defaults == {Null, Str("base"), Str("auto"), Str("xx")}

\* An exception leaving Settings.get
TypeError == [type |-> "raised", value |-> "TypeError"]

\* hash(v) is defined
Hashable(v) == v.type \notin {"list", "dict"}

\* self.settings.value(key, default)
QSettingsValue(key, default) == IF stored[key] = Absent THEN default ELSE stored[key]

\* value in self.VALID_MODELS (a list) / value in self.VALID_LANGUAGES (a
\* dict, whose lookup hashes the value)
InValidModels(v) == v.type = "str" /\ v.value \in VALID_MODELS
InValidLanguages(v) == v.type = "str" /\ v.value \in VALID_LANGUAGES

\* Settings.get(key, default)
SettingsGet(key, default) ==
    LET value == QSettingsValue(key, default)
    IN  IF key = "model" /\ ~InValidModels(value) THEN default
        ELSE IF key = "language" /\ ~Hashable(value) THEN TypeError
        ELSE IF key = "language" /\ ~InValidLanguages(value) THEN Str("auto")
        ELSE value

----------------------------------------------------------------------------
(* GlobalShortcuts *)

\* The keys of the keyboard the listener reports, by the name of the
\* keyboard.Key member or the character of the keyboard.KeyCode
PhysicalKeys == {"ctrl_l", "ctrl_r", "alt_l", "alt_gr", "shift_l", "r", "s"}

\* _parse_hotkey of the default combinations of setup_shortcuts
StartKeys == {"ctrl", "alt", "r"}
StopKeys == {"ctrl", "alt", "s"}

\* _normalize_key: the left and right variants of a modifier become the
\* modifier, any other key is itself
normalize_key(key) ==
    CASE key \in {"ctrl_l", "ctrl_r"} -> "ctrl"
      [] key \in {"alt_l", "alt_r", "alt_gr"} -> "alt"
      [] key \in {"shift_l", "shift_r"} -> "shift"
      [] key \in {"cmd_l", "cmd_r", "super_l", "super_r"} -> "cmd"
      [] OTHER -> key

\* The signals _on_press emits over the keys cur
Triggered(cur) ==
    (IF StartKeys # {} /\ StartKeys \subseteq cur THEN {"start_recording_triggered"} ELSE {})
    \cup (IF StopKeys # {} /\ StopKeys \subseteq cur THEN {"stop_recording_triggered"} ELSE {})

\* GlobalShortcuts after setup_shortcuts, no key held: held is the keys
\* physically down, current is _current_keys, event the listener's last
\* callback and emitted the signals it emitted
NoShortcuts == [held |-> {}, current |-> {}, event |-> "", emitted |-> {}]

----------------------------------------------------------------------------
(* Observations *)

Progress(msg) == [kind |-> "progress", msg |-> msg, text |-> <<>>]
Error(msg) == [kind |-> "error", msg |-> msg, text |-> <<>>]
Finished(text) == [kind |-> "finished", msg |-> "", text |-> text]

\* No decode call made
NoCall ==
    [made |-> FALSE, language |-> Absent, beam_size |-> 0, vad_filter |-> FALSE,
     hotwords |-> Absent, initial_prompt |-> Absent]

\* What the clipboard holds before the application sets it
Unset == <<"<unset>">>

\* The tray application at rest: not recording, no progress window, no error
\* dialog open, no file handed to a rejected call. Where the manager is
\* modelled without its user interface, ui stays at this value.
NoUI ==
    [recording |-> "idle", progress_window |-> FALSE, clipboard |-> Unset,
     dialogs |-> 0, rejected |-> "none", recorder |-> "stopped"]

\* What the recorder's calls have come to once start_recording or
\* stop_recording is called on it: started, stopped, or "broken" where the
\* call follows one of its own kind (or a stop came first)
RecorderCalled(r, call) ==
    IF call = "start_recording"
    THEN (IF r = "stopped" THEN "started" ELSE "broken")
    ELSE (IF r = "started" THEN "stopped" ELSE "broken")

\* A slot holding no TranscriptionWorker object
FreeWorker ==
    [pc |-> "free", model |-> None, file |-> FALSE, remove_failed |-> FALSE,
     err |-> "", obs |-> <<>>, age |-> 0, language |-> Str("auto"), kwargs |-> NoCall]

\* QThread.isRunning() / QThread.isFinished()
IsRunning(w) == workers[w].pc \notin {"free", "finished"}
IsFinished(w) == workers[w].pc = "finished"

\* Python frees a worker object whose thread has ended once the manager no
\* longer references it.
Collect(ws, wk) ==
    [s \in Slots |-> IF ws[s].pc = "finished" /\ s # wk THEN FreeWorker ELSE ws[s]]

\* A dispatch makes every earlier job one job older.
Older(a) == IF a < MaxAge THEN a + 1 ELSE MaxAge
AgeWorkers(ws) == [s \in Slots |-> IF ws[s].pc = "free" THEN ws[s] ELSE [ws[s] EXCEPT !.age = Older(@)]]
AgeQueue(q) == [i \in 1..Len(q) |-> [q[i] EXCEPT !.age = Older(@)]]

----------------------------------------------------------------------------
(* The manager once WhisperTranscriber.__init__ has returned, with no job  *)
(* in flight: freshly constructed, or StartNear calls short of the reload  *)
(* threshold, every earlier job run to its end, delivered and cleaned up.  *)

Init ==
    /\ model = Current
    /\ live = 1
    /\ worker = NoWorker
    /\ count \in {0, MODEL_RELOAD_INTERVAL - StartNear}
    /\ sinceLoad = count
    /\ onHandle = count
    /\ reloadOwed = FALSE
    /\ loadFailed = FALSE
    /\ doc \in StartDocuments
    /\ custom_words = load_custom_words(doc)
    /\ made = "constructed"
    /\ decoded = Undrawn
    /\ stored = NothingStored
    /\ got = NoGet
    /\ ui = NoUI
    /\ shortcuts = NoShortcuts
    /\ timer = FALSE
    /\ workers = [s \in Slots |-> FreeWorker]
    /\ queue = <<>>
    /\ mgr = "idle"
    /\ lastCall = ""

----------------------------------------------------------------------------
(* TranscriptionWorker.run, in the steps of the worker thread that another *)
(* thread can tell apart                                                   *)

\* The slices the two debug lines take of the hotwords and of the initial
\* prompt raise on a non-empty dict: the job fails before the decode call
KwargsRaise ==
    \E k \in {"hotwords", "initial_prompt"} :
        Truthy(custom_words[k]) /\ custom_words[k].type = "dict"

\* transcribe_kwargs with every key set
TranscribeKwargsAllKeys(w) ==
    [made |-> TRUE,
     language |-> IF workers[w].language.value = "auto" THEN Null ELSE workers[w].language,
     beam_size |-> 1,
     vad_filter |-> TRUE,
     hotwords |-> custom_words.hotwords,
     initial_prompt |-> custom_words.initial_prompt]

\* transcribe_kwargs: language, beam_size and vad_filter, then hotwords and
\* initial_prompt where the vocabulary's are truthy
TranscribeKwargs(w) ==
    [made |-> TRUE,
     language |-> IF workers[w].language.value = "auto" THEN Null ELSE workers[w].language,
     beam_size |-> 1,
     vad_filter |-> TRUE,
     hotwords |-> IF Truthy(custom_words.hotwords) THEN custom_words.hotwords ELSE Absent,
     initial_prompt |-> IF Truthy(custom_words.initial_prompt)
                        THEN custom_words.initial_prompt ELSE Absent]

\* The step is the one that calls self.model.transcribe: the worker is at
\* the decode, holds a model object and built its options
CallsModel(w) ==
    workers[w].pc = "transcribe" /\ workers[w].model # None /\ ~KwargsRaise

\* self.<signal>.emit(...) for each observation of os, in order: appended to
\* the worker's record and queued for the UI thread. err is the exception the
\* worker caught, "" for none.
Emit(w, os, nextpc, err) ==
    /\ workers' = [workers EXCEPT ![w].obs = @ \o os, ![w].pc = nextpc, ![w].err = err,
                                  ![w].kwargs = IF CallsModel(w) THEN TranscribeKwargs(w) ELSE @]
    /\ queue' = queue \o [i \in 1..Len(os) |->
                            [age |-> workers[w].age, kind |-> os[i].kind,
                             text |-> os[i].text]]

\* The except block emitting the error alone
ExceptErrorOnly(w, reason) == Emit(w, <<Error(reason)>>, "finally", reason)

\* The except block emitting finished("") before the error
ExceptFinishedFirst(w, reason) ==
    Emit(w, <<Finished(<<>>), Error(reason)>>, "finally", reason)

\* except Exception as e: self.error.emit(...); self.finished.emit("")
Except(w, reason) == Emit(w, <<Error(reason), Finished(<<>>)>>, "finally", reason)

\* run() emitting its first progress observation before the existence check
W_BeginProgressFirst(w) ==
    /\ workers[w].pc = "start"
    /\ IF workers[w].file
       THEN Emit(w, <<Progress("Loading audio file..."),
                      Progress("Processing audio with Whisper...")>>, "transcribe", "")
       ELSE Emit(w, <<Progress("Loading audio file..."), Error("Audio file not found"),
                      Finished(<<>>)>>, "finally", "Audio file not found")
    /\ lastCall' = ""
    /\ UNCHANGED <<model, worker, count, custom_words, timer, live, mgr, sinceLoad, loadFailed, onHandle, reloadOwed, aux>>

\* run() with the existence check outside the try block: FileNotFoundError
\* leaves run() uncaught when the file is missing
W_BeginEscaping(w) ==
    /\ workers[w].pc = "start"
    /\ IF workers[w].file
       THEN Emit(w, <<Progress("Loading audio file..."),
                      Progress("Processing audio with Whisper...")>>, "transcribe", "")
       ELSE /\ workers' = [workers EXCEPT ![w].pc = "finally",
                                          ![w].err = "Audio file not found"]
            /\ UNCHANGED queue
    /\ lastCall' = ""
    /\ UNCHANGED <<model, worker, count, custom_words, timer, live, mgr, sinceLoad, loadFailed, onHandle, reloadOwed, aux>>

\* run() up to the decode: the existence check, then the two progress
\* emissions, or FileNotFoundError and the except block
W_Begin(w) ==
    /\ workers[w].pc = "start"
    /\ IF workers[w].file
       THEN Emit(w, <<Progress("Loading audio file..."),
                      Progress("Processing audio with Whisper...")>>, "transcribe", "")
       ELSE Except(w, "Audio file not found")
    /\ lastCall' = ""
    /\ UNCHANGED <<model, worker, count, custom_words, timer, live, mgr, sinceLoad, loadFailed, onHandle, reloadOwed, aux>>

\* The text the worker ends with for a decode result d: the segments joined,
\* the empty-text check, then the replacements.
PostProcess(d, cw) ==
    IF d.raised THEN [err |-> "decode", text |-> <<>>]
    ELSE LET text == JoinSegments(d.segments)
         IN  IF text = <<>> THEN [err |-> "No text was transcribed", text |-> <<>>]
             ELSE IF ~Truthy(cw.replacements) THEN [err |-> "", text |-> text]
             ELSE IF cw.replacements.type # "dict"
                  THEN [err |-> "AttributeError", text |-> <<>>]
             ELSE LET t == apply_replacements(text, cw.replacements.value)
                  IN  IF t = BadTemplate THEN [err |-> "re.error", text |-> <<>>]
                      ELSE [err |-> "", text |-> t]

\* self.model.transcribe(...) on the handle the worker was given, the join,
\* the replacements and the emissions that end the try block or the except
\* block. Without a handle the call raises; a released handle may raise or
\* still answer. The worker holds the manager's vocabulary object.
Decode(w, d) ==
    /\ workers[w].model = None => d.raised
    /\ LET r == PostProcess(d, custom_words)
       IN  IF KwargsRaise THEN Except(w, "TypeError")
           ELSE IF r.err = ""
           THEN Emit(w, <<Progress("Transcription completed!"), Finished(r.text)>>,
                     "finally", "")
           ELSE Except(w, r.err)

\* The decode and what follows it, for any result the model can give
W_Transcribe(w) ==
    /\ workers[w].pc = "transcribe"
    /\ \E d \in DecodeResults : Decode(w, d)
    /\ lastCall' = ""
    /\ UNCHANGED <<model, worker, count, custom_words, timer, live, mgr, sinceLoad, loadFailed, onHandle, reloadOwed, aux>>

\* The finally block removing the file only after a job that caught nothing
W_FinallyOnSuccess(w) ==
    /\ workers[w].pc = "finally"
    /\ workers' = Collect([workers EXCEPT ![w].pc = "finished",
                                          ![w].file = IF workers[w].err = "" THEN FALSE ELSE @],
                          worker)
    /\ lastCall' = ""
    /\ UNCHANGED <<model, worker, count, custom_words, timer, live, queue, mgr, sinceLoad, loadFailed, onHandle, reloadOwed, aux>>

\* The finally block reporting a failed removal as an error observation
W_FinallyReporting(w) ==
    /\ workers[w].pc = "finally"
    /\ \E removed \in BOOLEAN :
        IF workers[w].file /\ ~removed
        THEN Emit(w, <<Error("Failed to remove temporary file")>>, "finished",
                  "Failed to remove temporary file")
        ELSE /\ workers' = Collect([workers EXCEPT ![w].pc = "finished", ![w].file = FALSE],
                                   worker)
             /\ UNCHANGED queue
    /\ lastCall' = ""
    /\ UNCHANGED <<model, worker, count, custom_words, timer, live, mgr, sinceLoad, loadFailed, onHandle, reloadOwed, aux>>

\* finally: if os.path.exists(f): os.remove(f), which may raise (logged);
\* gc.collect(); run() returns and the thread ends
W_Finally(w) ==
    /\ workers[w].pc = "finally"
    /\ \E removed \in BOOLEAN :
        workers' = Collect([workers EXCEPT ![w].pc = "finished",
                                           ![w].file = IF removed THEN FALSE ELSE @,
                                           ![w].remove_failed = workers[w].file /\ ~removed],
                           worker)
    /\ lastCall' = ""
    /\ UNCHANGED <<model, worker, count, custom_words, timer, live, queue, mgr, sinceLoad, loadFailed, onHandle, reloadOwed, aux>>

WorkerStep ==
    \E w \in Slots :
        \/ W_Begin(w)
        \/ W_Transcribe(w)
        \/ W_Finally(w)

----------------------------------------------------------------------------
(* WhisperTranscriber: the handlers of the UI thread *)

Busy == worker # NoWorker /\ IsRunning(worker)

\* The UI thread is free to make a call of the manager
CanCall == mgr = "idle" /\ Len(queue) <= MaxPending

\* The slots free once the assignment to self.worker has dropped the worker
\* it held
FreeSlots == {s \in Slots : workers[s].pc \in {"free", "finished"}}
Min(S) == CHOOSE x \in S : \A y \in S : x <= y

\* if self.model is not None: del self.model.model; del self.model;
\* self.model = None. The native model is dropped from the object, which the
\* workers constructed with it go on holding.
ReleasedLive == IF model = None THEN live ELSE live - 1
ReleasedWorkers(ws) ==
    IF model = None THEN ws
    ELSE [s \in Slots |-> IF ws[s].model = Current THEN [ws[s] EXCEPT !.model = Released]
                          ELSE ws[s]]

\* The ghost count of accepted calls since the last load, kept up to the
\* reload interval (the interval stands for "the interval or more").
Accepted(n) == IF n < MODEL_RELOAD_INTERVAL THEN n + 1 ELSE n

\* The ghost count of the workers dispatched on the handle held, kept up to
\* the bound of the usage counter
Counted(n) == IF n < MaxCount THEN n + 1 ELSE n

\* self.worker = TranscriptionWorker(self.model, audio_file, language,
\* self.custom_words), after "Starting transcription..." went out; start()
NewWorker(m, exists) ==
    [pc |-> "start", model |-> m, file |-> exists, remove_failed |-> FALSE, err |-> "",
     obs |-> <<Progress("Starting transcription...")>>, age |-> 0,
     language |-> SettingsGet("language", Str("auto")), kwargs |-> NoCall]

\* Settings().get('language', 'auto') at line 371 raises
LanguageRaises == SettingsGet("language", Str("auto")).type = "raised"

Dispatch(ws, m, exists) ==
    LET s == Min(FreeSlots)
    IN  /\ ~LanguageRaises
        /\ workers' = Collect([AgeWorkers(ws) EXCEPT ![s] = NewWorker(m, exists)], s)
        /\ worker' = s
        /\ queue' = AgeQueue(queue)

\* The calls a run counts: the first MaxEarly after zero, and those from
\* StartNear short of the threshold on
InWindow(n) == n < MaxEarly \/ n >= MODEL_RELOAD_INTERVAL - StartNear

\* transcribe_file counting the call before its busy check
TranscribeFileBusyCounted ==
    /\ CanCall
    /\ Busy
    /\ count' = IF count < MaxCount THEN count + 1 ELSE count
    /\ lastCall' = "transcribe_file:busy"
    /\ UNCHANGED <<model, worker, custom_words, timer, live, workers, queue, mgr, sinceLoad, loadFailed, onHandle, reloadOwed, aux>>

\* transcribe_file, rejected: a worker is running
TranscribeFileBusy ==
    /\ CanCall
    /\ Busy
    /\ lastCall' = "transcribe_file:busy"
    /\ UNCHANGED <<model, worker, count, custom_words, timer, live, workers, queue, mgr, sinceLoad, loadFailed, onHandle, reloadOwed, aux>>

\* transcribe_file comparing the counter with the threshold before the
\* increment
TranscribeFileDispatchLate ==
    /\ CanCall
    /\ ~Busy
    /\ count < MODEL_RELOAD_INTERVAL
    /\ InWindow(count) /\ InWindow(sinceLoad)
    /\ FreeSlots # {}
    /\ \E exists \in BOOLEAN : Dispatch(workers, model, exists)
    /\ count' = count + 1
    /\ sinceLoad' = Accepted(sinceLoad)
    /\ onHandle' = IF model = None THEN onHandle ELSE Counted(onHandle)
    /\ reloadOwed' = FALSE
    /\ lastCall' = "transcribe_file"
    /\ UNCHANGED <<model, custom_words, timer, live, mgr, loadFailed, aux>>

\* transcribe_file dispatching without counting the call
TranscribeFileDispatchUncounted ==
    /\ CanCall
    /\ ~Busy
    /\ count + 1 < MODEL_RELOAD_INTERVAL
    /\ InWindow(count) /\ InWindow(sinceLoad)
    /\ FreeSlots # {}
    /\ \E exists \in BOOLEAN : Dispatch(workers, model, exists)
    /\ count' = count
    /\ sinceLoad' = sinceLoad
    /\ onHandle' = IF model = None THEN onHandle ELSE Counted(onHandle)
    /\ reloadOwed' = FALSE
    /\ lastCall' = "transcribe_file"
    /\ UNCHANGED <<model, custom_words, timer, live, mgr, loadFailed, aux>>

\* transcribe_file, below the reload threshold: count and dispatch
TranscribeFileDispatch ==
    /\ CanCall
    /\ ~Busy
    /\ count + 1 < MODEL_RELOAD_INTERVAL
    /\ InWindow(count) /\ InWindow(sinceLoad)
    /\ FreeSlots # {}
    /\ \E exists \in BOOLEAN : Dispatch(workers, model, exists)
    /\ count' = count + 1
    /\ sinceLoad' = Accepted(sinceLoad)
    /\ onHandle' = IF model = None THEN onHandle ELSE Counted(onHandle)
    /\ reloadOwed' = FALSE
    /\ lastCall' = "transcribe_file"
    /\ UNCHANGED <<model, custom_words, timer, live, mgr, loadFailed, aux>>

\* transcribe_file below the threshold, Settings.get raising on the stored
\* language: the call is counted and "Starting transcription..." emitted to
\* the listeners, then the exception leaves transcribe_file before a worker
\* is created
TranscribeFileLanguageRaise ==
    /\ CanCall
    /\ ~Busy
    /\ count + 1 < MODEL_RELOAD_INTERVAL
    /\ InWindow(count) /\ InWindow(sinceLoad)
    /\ LanguageRaises
    /\ count' = count + 1
    /\ sinceLoad' = Accepted(sinceLoad)
    /\ reloadOwed' = FALSE
    /\ lastCall' = "transcribe_file:language"
    /\ UNCHANGED <<model, worker, custom_words, timer, live, workers, queue, mgr, loadFailed,
                   onHandle, aux>>

\* transcribe_file at the threshold: reload_model() first (its own busy check
\* passes, the worker is not running), then dispatch on the new handle
TranscribeFileReload ==
    /\ CanCall
    /\ ~Busy
    /\ count + 1 >= MODEL_RELOAD_INTERVAL
    /\ FreeSlots # {}
    /\ model' = Current
    /\ live' = ReleasedLive + 1
    /\ \E exists \in BOOLEAN : Dispatch(ReleasedWorkers(workers), Current, exists)
    /\ count' = 0
    /\ sinceLoad' = 0
    /\ loadFailed' = FALSE
    /\ onHandle' = 1
    /\ reloadOwed' = FALSE
    /\ lastCall' = "transcribe_file:reloaded"
    /\ UNCHANGED <<custom_words, timer, mgr, aux>>

\* transcribe_file at the threshold, reload_model setting the counter to zero
\* before load_model, which raises
TranscribeFileRaiseResetting ==
    /\ CanCall
    /\ ~Busy
    /\ count + 1 >= MODEL_RELOAD_INTERVAL
    /\ count + 1 <= MaxCount
    /\ model' = None
    /\ live' = ReleasedLive
    /\ count' = 0
    /\ sinceLoad' = Accepted(sinceLoad)
    /\ loadFailed' = TRUE
    /\ onHandle' = 0
    /\ reloadOwed' = TRUE
    /\ workers' = ReleasedWorkers(workers)
    /\ lastCall' = "transcribe_file:raised"
    /\ UNCHANGED <<worker, custom_words, timer, queue, mgr, aux>>

\* transcribe_file at the threshold, load_model raising inside reload_model:
\* the exception leaves transcribe_file before any worker is created
TranscribeFileRaise ==
    /\ CanCall
    /\ ~Busy
    /\ count + 1 >= MODEL_RELOAD_INTERVAL
    /\ count + 1 <= MaxCount
    /\ model' = None
    /\ live' = ReleasedLive
    /\ count' = count + 1
    /\ sinceLoad' = Accepted(sinceLoad)
    /\ loadFailed' = TRUE
    /\ onHandle' = 0
    /\ reloadOwed' = TRUE
    /\ workers' = ReleasedWorkers(workers)
    /\ lastCall' = "transcribe_file:raised"
    /\ UNCHANGED <<worker, custom_words, timer, queue, mgr, aux>>

\* reload_model releasing the handle before its busy check
ReloadModelBusyReleasing ==
    /\ CanCall
    /\ Busy
    /\ model' = None
    /\ live' = ReleasedLive
    /\ workers' = ReleasedWorkers(workers)
    /\ lastCall' = "reload_model:busy"
    /\ UNCHANGED <<worker, count, custom_words, timer, queue, mgr, sinceLoad, loadFailed, onHandle, reloadOwed, aux>>

\* reload_model while a worker runs: logs and returns
ReloadModelBusy ==
    /\ CanCall
    /\ Busy
    /\ lastCall' = "reload_model:busy"
    /\ UNCHANGED <<model, worker, count, custom_words, timer, live, workers, queue, mgr, sinceLoad, loadFailed, onHandle, reloadOwed, aux>>

\* reload_model loading the new handle without releasing the one it holds
ReloadModelKeepingOld ==
    /\ CanCall
    /\ ~Busy
    /\ model' = Current
    /\ live' = live + 1
    /\ workers' = workers
    /\ count' = 0
    /\ sinceLoad' = 0
    /\ loadFailed' = FALSE
    /\ onHandle' = 0
    /\ reloadOwed' = reloadOwed
    /\ lastCall' = "reload_model"
    /\ UNCHANGED <<worker, custom_words, timer, queue, mgr, aux>>

\* reload_model: release, load_model, counter to zero
ReloadModel ==
    /\ CanCall
    /\ ~Busy
    /\ model' = Current
    /\ live' = ReleasedLive + 1
    /\ workers' = ReleasedWorkers(workers)
    /\ count' = 0
    /\ sinceLoad' = 0
    /\ loadFailed' = FALSE
    /\ onHandle' = 0
    /\ reloadOwed' = reloadOwed
    /\ lastCall' = "reload_model"
    /\ UNCHANGED <<worker, custom_words, timer, queue, mgr, aux>>

\* reload_model setting the counter to zero before load_model, which raises
ReloadModelRaiseResetting ==
    /\ CanCall
    /\ ~Busy
    /\ model' = None
    /\ live' = ReleasedLive
    /\ workers' = ReleasedWorkers(workers)
    /\ count' = 0
    /\ loadFailed' = TRUE
    /\ onHandle' = 0
    /\ reloadOwed' = reloadOwed
    /\ lastCall' = "reload_model:raised"
    /\ UNCHANGED <<worker, custom_words, timer, queue, mgr, sinceLoad, aux>>

\* reload_model with load_model raising: the reset of the counter is skipped
ReloadModelRaise ==
    /\ CanCall
    /\ ~Busy
    /\ model' = None
    /\ live' = ReleasedLive
    /\ workers' = ReleasedWorkers(workers)
    /\ loadFailed' = TRUE
    /\ onHandle' = 0
    /\ reloadOwed' = reloadOwed
    /\ lastCall' = "reload_model:raised"
    /\ UNCHANGED <<worker, count, custom_words, timer, queue, mgr, sinceLoad, aux>>

\* How lastCall records a cleanup() that has just returned
CleanupCall == IF lastCall \in {"cleanup", "cleanup:again"} THEN "cleanup:again" ELSE "cleanup"

\* cleanup() leaving the usage counter as it finds it
CleanupReleaseKeepingCount(wk) ==
    /\ worker' = wk
    /\ model' = None
    /\ live' = ReleasedLive
    /\ onHandle' = 0
    /\ reloadOwed' = reloadOwed
    /\ workers' = Collect(ReleasedWorkers(workers), wk)
    /\ mgr' = "idle"
    /\ lastCall' = CleanupCall
    /\ UNCHANGED <<count, custom_words, timer, queue, sinceLoad, loadFailed, aux>>

\* cleanup() from the release of the model on: the handle is released and
\* the counter set to zero
CleanupRelease(wk) ==
    /\ worker' = wk
    /\ model' = None
    /\ live' = ReleasedLive
    /\ count' = 0
    /\ onHandle' = 0
    /\ reloadOwed' = reloadOwed
    /\ workers' = Collect(ReleasedWorkers(workers), wk)
    /\ mgr' = "idle"
    /\ lastCall' = CleanupCall
    /\ UNCHANGED <<custom_words, timer, queue, sinceLoad, loadFailed, aux>>

\* cleanup() with no running worker
Cleanup ==
    /\ CanCall
    /\ ~Busy
    /\ CleanupRelease(worker)

\* cleanup() with a running worker: the UI thread blocks in worker.wait(5000)
CleanupWait ==
    /\ CanCall
    /\ Busy
    /\ mgr' = "cleanup_wait"
    /\ lastCall' = ""
    /\ UNCHANGED <<model, worker, count, custom_words, timer, live, workers, queue, sinceLoad, loadFailed, onHandle, reloadOwed, aux>>

\* worker.wait() without a timeout: it returns only once the worker has
\* finished
CleanupWaitUnbounded ==
    /\ mgr = "cleanup_wait"
    /\ ~Busy
    /\ CleanupRelease(NoWorker)

\* worker.wait(5000) returns, the worker finished or the five seconds over;
\* self.worker = NoWorker and cleanup() goes on
CleanupWaitReturn ==
    /\ mgr = "cleanup_wait"
    /\ CleanupRelease(NoWorker)

\* The event loop delivers the oldest queued emission to the manager's
\* signals; a finished emission also runs _schedule_worker_cleanup
Deliver ==
    /\ mgr = "idle"
    /\ queue # <<>>
    /\ timer' = IF Head(queue).kind = "finished" THEN TRUE ELSE timer
    /\ queue' = Tail(queue)
    /\ lastCall' = ""
    /\ UNCHANGED <<model, worker, count, custom_words, live, workers, mgr, sinceLoad, loadFailed, onHandle, reloadOwed, aux>>

\* _cleanup_worker without its isFinished() check: the reference is cleared
\* whatever the worker does
CleanupWorkerUnchecked ==
    /\ mgr = "idle"
    /\ timer
    /\ timer' = FALSE
    /\ worker' = NoWorker
    /\ workers' = Collect(workers, worker')
    /\ lastCall' = "cleanup_worker"
    /\ UNCHANGED <<model, count, custom_words, live, queue, mgr, sinceLoad, loadFailed, onHandle, reloadOwed, aux>>

\* The single-shot timer fires: _cleanup_worker
CleanupWorker ==
    /\ mgr = "idle"
    /\ timer
    /\ timer' = FALSE
    /\ worker' = IF worker # NoWorker /\ IsFinished(worker) THEN NoWorker ELSE worker
    /\ workers' = Collect(workers, worker')
    /\ lastCall' = "cleanup_worker"
    /\ UNCHANGED <<model, count, custom_words, live, queue, mgr, sinceLoad, loadFailed, onHandle, reloadOwed, aux>>

Next ==
    \/ WorkerStep
    \/ TranscribeFileBusy
    \/ TranscribeFileDispatch
    \/ TranscribeFileReload
    \/ TranscribeFileRaise
    \/ ReloadModelBusy
    \/ ReloadModel
    \/ ReloadModelRaise
    \/ Cleanup
    \/ CleanupWait
    \/ CleanupWaitReturn
    \/ Deliver
    \/ CleanupWorker

Spec == Init /\ [][Next]_vars

----------------------------------------------------------------------------
(* The manager through cleanup() and the calls that follow it, under a     *)
(* language setting that is missing, valid, or a list                      *)

NoHandleInit ==
    /\ stored \in [model : {Absent}, device : {Absent},
                   language : {Absent, Str("en"), List(<<Str("en"), Str("fr")>>)}]
    /\ got = NoGet
    /\ ui = NoUI
    /\ shortcuts = NoShortcuts
    /\ model = Current
    /\ live = 1
    /\ worker = NoWorker
    /\ count = 0
    /\ sinceLoad = 0
    /\ onHandle = 0
    /\ reloadOwed = FALSE
    /\ loadFailed = FALSE
    /\ doc \in StartDocuments
    /\ custom_words = load_custom_words(doc)
    /\ made = "constructed"
    /\ decoded = Undrawn
    /\ timer = FALSE
    /\ workers = [s \in Slots |-> FreeWorker]
    /\ queue = <<>>
    /\ mgr = "idle"
    /\ lastCall = ""

NoHandleNext ==
    \/ Cleanup
    \/ CleanupWait
    \/ CleanupWaitReturn
    \/ TranscribeFileBusy
    \/ TranscribeFileDispatch
    \/ TranscribeFileLanguageRaise
    \/ WorkerStep
    \/ Deliver
    \/ CleanupWorker

SpecNoHandle == NoHandleInit /\ [][NoHandleNext]_vars

----------------------------------------------------------------------------

(* The manager on a handle of either origin: loaded at construction or by *)
(* a manual reload, when it has served as many workers as the counter     *)
(* says, or loaded by the reload inside transcribe_file, when it has       *)
(* served one more                                                         *)

CountInit ==
    /\ model = Current
    /\ live = 1
    /\ worker = NoWorker
    /\ count \in {0, MODEL_RELOAD_INTERVAL - StartNear}
    /\ sinceLoad = count
    /\ onHandle \in {count, count + 1}
    /\ reloadOwed = FALSE
    /\ loadFailed = FALSE
    /\ doc \in StartDocuments
    /\ custom_words = load_custom_words(doc)
    /\ made = "constructed"
    /\ decoded = Undrawn
    /\ stored = NothingStored
    /\ got = NoGet
    /\ ui = NoUI
    /\ shortcuts = NoShortcuts
    /\ timer = FALSE
    /\ workers = [s \in Slots |-> FreeWorker]
    /\ queue = <<>>
    /\ mgr = "idle"
    /\ lastCall = ""

SpecCount == CountInit /\ [][Next]_vars

----------------------------------------------------------------------------

(* The manager with the scheduling the wait's timeout guarantees: a        *)
(* worker.wait(5000) that has begun returns, whatever the worker does      *)

SpecFair == Spec /\ WF_vars(CleanupWaitReturn)

----------------------------------------------------------------------------
(* WhisperTranscriber.__init__: the fields set, then load_custom_words()   *)
(* and load_model(), over every document the configuration directory can   *)
(* hold                                                                     *)

\* self.custom_words = {}
NoVocabulary == [hotwords |-> Absent, replacements |-> Absent, initial_prompt |-> Absent]

ConstructInit ==
    /\ made = "new"
    /\ doc \in Documents
    /\ decoded = Undrawn
    /\ stored = NothingStored
    /\ got = NoGet
    /\ ui = NoUI
    /\ shortcuts = NoShortcuts
    /\ model = None
    /\ live = 0
    /\ worker = NoWorker
    /\ count = 0
    /\ sinceLoad = 0
    /\ onHandle = 0
    /\ reloadOwed = FALSE
    /\ loadFailed = FALSE
    /\ custom_words = NoVocabulary
    /\ timer = FALSE
    /\ workers = [s \in Slots |-> FreeWorker]
    /\ queue = <<>>
    /\ mgr = "idle"
    /\ lastCall = ""

\* Whether the two log lines of WhisperTranscriber.load_custom_words raise
\* on the vocabulary cw: .split() of hotwords that are no str, len() of
\* replacements that have no length
LogRaises(cw) ==
    \/ Truthy(cw.hotwords) /\ cw.hotwords.type # "str"
    \/ Truthy(cw.replacements) /\ ~HasLen(cw.replacements)

\* self.load_custom_words()
LoadCustomWords ==
    /\ made = "new"
    /\ custom_words' = load_custom_words(doc)
    /\ made' = IF LogRaises(custom_words') THEN "raised in load_custom_words"
               ELSE "vocabulary loaded"
    /\ UNCHANGED <<model, worker, count, timer, live, workers, queue, mgr, lastCall,
                   sinceLoad, loadFailed, onHandle, reloadOwed, doc, decoded, stored, got, ui, shortcuts>>

\* self.load_model(), returning
LoadModel ==
    /\ made = "vocabulary loaded"
    /\ model' = Current
    /\ live' = 1
    /\ made' = "constructed"
    /\ UNCHANGED <<worker, count, custom_words, timer, workers, queue, mgr, lastCall,
                   sinceLoad, loadFailed, onHandle, reloadOwed, doc, decoded, stored, got, ui, shortcuts>>

\* self.load_model(), raising
LoadModelRaise ==
    /\ made = "vocabulary loaded"
    /\ loadFailed' = TRUE
    /\ made' = "raised in load_model"
    /\ UNCHANGED <<model, worker, count, custom_words, timer, live, workers, queue, mgr,
                   lastCall, sinceLoad, onHandle, reloadOwed, doc, decoded, stored, got, ui, shortcuts>>

ConstructNext ==
    \/ LoadCustomWords
    \/ LoadModel
    \/ LoadModelRaise

SpecConstruct == ConstructInit /\ [][ConstructNext]_vars

----------------------------------------------------------------------------
(* One job from the decode on, over the texts the model can return and the *)
(* replacement mappings the vocabulary document can hold                   *)

\* The replacement mappings drawn: none, a misspelling corrected, a filler
\* word deleted, a replacement that holds its own pattern, two pairs of which
\* one produces the other's pattern (in both orders), replacements holding a
\* backslash, and a pattern holding a regular-expression metacharacter
TextReplacements ==
    { Absent,
      Dict(<< << <<"t","e","h">>, <<"t","h","e">> >> >>),
      Dict(<< << <<"u","m">>, <<>> >> >>),
      Dict(<< << <<"a">>, <<"a","a">> >> >>),
      Dict(<< << <<"a">>, <<"b">> >>, << <<"b">>, <<"c">> >> >>),
      Dict(<< << <<"b">>, <<"c">> >>, << <<"a">>, <<"b">> >> >>),
      Dict(<< << <<"a">>, <<"\\","1">> >> >>),
      Dict(<< << <<"a">>, <<"\\","n">> >> >>),
      Dict(<< << <<".">>, <<"x">> >> >>) }

TextDocuments ==
    { [file |-> "object", hotwords |-> Absent, replacements |-> r,
       initial_prompt |-> Absent] : r \in TextReplacements }

\* The segment texts drawn
TextSegmentLists ==
    { <<>>,
      << <<" ">> >>,
      << <<" ">>, <<" ">> >>,
      << <<"H","e","l","l","o">>, <<"w","o","r","l","d">> >>,
      << <<" ","H","e","l","l","o"," ">>, <<>>, <<"w","o","r","l","d","\n">> >>,
      << <<"T","E","H"," ","c","a","t">> >>,
      << <<"t","h","e"," ","c","a","t">> >>,
      << <<" ","U","m">>, <<"a"," ">> >>,
      << <<"a",".","c">>, <<"A","b","c">> >> }

TextDecodeResults ==
    {[raised |-> TRUE, segments |-> <<>>]} \cup
    {[raised |-> FALSE, segments |-> sl] : sl \in TextSegmentLists}

\* A manager whose first job has reached the decode, its two progress
\* emissions delivered
DecodeInit ==
    /\ model = Current
    /\ live = 1
    /\ worker = 1
    /\ count = 1
    /\ sinceLoad = 1
    /\ onHandle = 1
    /\ reloadOwed = FALSE
    /\ loadFailed = FALSE
    /\ doc \in TextDocuments
    /\ custom_words = load_custom_words(doc)
    /\ made = "constructed"
    /\ decoded \in TextDecodeResults
    /\ stored = NothingStored
    /\ got = NoGet
    /\ ui = NoUI
    /\ shortcuts = NoShortcuts
    /\ timer = FALSE
    /\ workers = [s \in Slots |->
                    IF s = 1
                    THEN [NewWorker(Current, TRUE) EXCEPT
                            !.pc = "transcribe",
                            !.obs = @ \o <<Progress("Loading audio file..."),
                                           Progress("Processing audio with Whisper...")>>]
                    ELSE FreeWorker]
    /\ queue = <<>>
    /\ mgr = "idle"
    /\ lastCall = ""

\* The decode returning the result fixed for the job, and what follows it
W_TranscribeDecoded(w) ==
    /\ workers[w].pc = "transcribe"
    /\ Decode(w, decoded)
    /\ lastCall' = ""
    /\ UNCHANGED <<model, worker, count, custom_words, timer, live, mgr, sinceLoad, loadFailed, onHandle, reloadOwed, aux>>

DecodeNext ==
    \/ \E w \in Slots : W_TranscribeDecoded(w)
    \/ \E w \in Slots : W_Finally(w)
    \/ Deliver

SpecDecode == DecodeInit /\ [][DecodeNext]_vars

----------------------------------------------------------------------------

(* Settings.get and Settings.set over the values the store can hold        *)

SettingsInit ==
    /\ stored \in [model : ModelValues, language : LanguageValues, device : DeviceValues]
    /\ got = NoGet
    /\ ui = NoUI
    /\ shortcuts = NoShortcuts
    /\ model = Current
    /\ live = 1
    /\ worker = NoWorker
    /\ count = 0
    /\ sinceLoad = 0
    /\ onHandle = 0
    /\ reloadOwed = FALSE
    /\ loadFailed = FALSE
    /\ doc = NoDocument("missing")
    /\ custom_words = load_custom_words(doc)
    /\ made = "constructed"
    /\ decoded = Undrawn
    /\ timer = FALSE
    /\ workers = [s \in Slots |-> FreeWorker]
    /\ queue = <<>>
    /\ mgr = "idle"
    /\ lastCall = ""

\* Settings().get(key, default)
Get ==
    /\ \E key \in Keys : \E default \in Defaults :
          got' = [key |-> key, default |-> default, value |-> stored[key],
                  result |-> SettingsGet(key, default)]
    /\ UNCHANGED <<model, worker, count, custom_words, timer, live, workers, queue, mgr,
                   lastCall, sinceLoad, loadFailed, onHandle, reloadOwed, doc, made, decoded, stored, ui, shortcuts>>

\* Settings().set(key, value): an invalid model or language raises
\* ValueError and nothing is stored
Set ==
    /\ \E key \in Keys : \E value \in (ModelValues \cup LanguageValues \cup DeviceValues) \ {Absent} :
          /\ key = "model" => InValidModels(value)
          /\ key = "language" => (Hashable(value) /\ InValidLanguages(value))
          /\ stored' = [stored EXCEPT ![key] = value]
    /\ UNCHANGED <<model, worker, count, custom_words, timer, live, workers, queue, mgr,
                   lastCall, sinceLoad, loadFailed, onHandle, reloadOwed, doc, made, decoded, got, ui, shortcuts>>

SettingsNext ==
    \/ Get
    \/ Set

SpecSettings == SettingsInit /\ [][SettingsNext]_vars

----------------------------------------------------------------------------

(* Jobs submitted under each language setting and each vocabulary, the    *)
(* language setting changing between the calls                             *)

\* The stored languages Settings.get returns a value for
HashableLanguageValues == {v \in LanguageValues : Hashable(v)}

\* The vocabulary documents drawn: each of hotwords and initial prompt
\* missing, empty or set, and an initial prompt that is a list or a dict
OptionDocuments ==
    [file : {"object"},
     hotwords : {Absent, Str(<<>>), Str(<<"t", "e", "h">>)},
     replacements : {Absent},
     initial_prompt : {Absent, Str(<<>>), Str(<<"h", "i">>), List(<<Str(<<"h", "i">>)>>),
                       Dict(<< << <<"h">>, <<"i">> >> >>)}]

OptionsInit ==
    /\ stored \in [model : {Absent}, language : HashableLanguageValues, device : {Absent}]
    /\ got = NoGet
    /\ ui = NoUI
    /\ shortcuts = NoShortcuts
    /\ model = Current
    /\ live = 1
    /\ worker = NoWorker
    /\ count = 0
    /\ sinceLoad = 0
    /\ onHandle = 0
    /\ reloadOwed = FALSE
    /\ loadFailed = FALSE
    /\ doc \in OptionDocuments
    /\ custom_words = load_custom_words(doc)
    /\ made = "constructed"
    /\ decoded = Undrawn
    /\ timer = FALSE
    /\ workers = [s \in Slots |-> FreeWorker]
    /\ queue = <<>>
    /\ mgr = "idle"
    /\ lastCall = ""

\* Settings().set('language', value) with a valid language
SetLanguage ==
    /\ \E value \in LanguageValues :
          /\ Hashable(value) /\ InValidLanguages(value)
          /\ stored' = [stored EXCEPT !.language = value]
    /\ lastCall' = ""
    /\ UNCHANGED <<model, worker, count, custom_words, timer, live, workers, queue, mgr,
                   sinceLoad, loadFailed, onHandle, reloadOwed, doc, made, decoded, got, ui, shortcuts>>

OptionsNext ==
    \/ SetLanguage
    \/ TranscribeFileDispatch
    \/ WorkerStep
    \/ Deliver
    \/ CleanupWorker

SpecOptions == OptionsInit /\ [][OptionsNext]_vars

----------------------------------------------------------------------------

(* The tray application around the manager: recordings started and        *)
(* stopped, the recorder handing each saved file to transcribe_file, and   *)
(* the handlers the manager's signals are connected to                     *)

UIInit ==
    /\ ui = NoUI
    /\ shortcuts = NoShortcuts
    /\ stored = NothingStored
    /\ got = NoGet
    /\ model = Current
    /\ live = 1
    /\ worker = NoWorker
    /\ count = 0
    /\ sinceLoad = 0
    /\ onHandle = 0
    /\ reloadOwed = FALSE
    /\ loadFailed = FALSE
    /\ doc \in StartDocuments
    /\ custom_words = load_custom_words(doc)
    /\ made = "constructed"
    /\ decoded = Undrawn
    /\ timer = FALSE
    /\ workers = [s \in Slots |-> FreeWorker]
    /\ queue = <<>>
    /\ mgr = "idle"
    /\ lastCall = ""

\* What the steps of the user interface leave alone
manager == <<model, worker, count, custom_words, timer, live, workers, queue, mgr,
             sinceLoad, loadFailed, onHandle, reloadOwed>>
fixed == <<doc, made, decoded, stored, got, shortcuts>>

\* toggle_recording, not recording: the progress window is shown and the
\* recorder started
StartRecording ==
    /\ ui.recording = "idle"
    /\ ui' = [ui EXCEPT !.recording = "recording", !.progress_window = TRUE,
                        !.recorder = RecorderCalled(@, "start_recording")]
    /\ lastCall' \in {"start_recording", "toggle_recording"}
    /\ UNCHANGED <<manager, fixed>>

\* start_recording without its check of self.recording: the trigger toggles
StartRecordingUnguarded ==
    /\ ui.recording = "recording"
    /\ ui' = [ui EXCEPT !.recording = "saving",
                        !.recorder = RecorderCalled(@, "stop_recording")]
    /\ lastCall' = "start_recording"
    /\ UNCHANGED <<manager, fixed>>

\* start_recording while self.recording is set (the start hotkey again, or
\* its key repeat): returns at once
StartRecordingIgnored ==
    /\ ui.recording = "recording"
    /\ lastCall' = "start_recording"
    /\ UNCHANGED <<manager, fixed, ui>>

\* stop_recording while self.recording is not set (the stop hotkey, the stop
\* button): returns at once
StopRecordingIgnored ==
    /\ ui.recording # "recording"
    /\ lastCall' = "stop_recording"
    /\ UNCHANGED <<manager, fixed, ui>>

\* toggle_recording, recording: the recorder is stopped and saves the file
StopRecording ==
    /\ ui.recording = "recording"
    /\ ui' = [ui EXCEPT !.recording = "saving",
                        !.recorder = RecorderCalled(@, "stop_recording")]
    /\ lastCall' \in {"stop_recording", "toggle_recording"}
    /\ UNCHANGED <<manager, fixed>>

\* toggle_recording, recording, recorder.stop_recording() raising: the
\* progress window is closed and nothing is handed over
StopRecordingRaise ==
    /\ ui.recording = "recording"
    /\ ui' = [ui EXCEPT !.recording = "idle", !.progress_window = FALSE,
                        !.recorder = RecorderCalled(@, "stop_recording")]
    /\ lastCall' \in {"stop_recording", "toggle_recording"}
    /\ UNCHANGED <<manager, fixed>>

\* transcribe_file removing the file of the call it rejects
RecordingFinishedBusyRemoving ==
    /\ ui.recording = "saving"
    /\ CanCall
    /\ Busy
    /\ ui' = [ui EXCEPT !.recording = "idle", !.rejected = "removed"]
    /\ lastCall' = "transcribe_file:busy"
    /\ UNCHANGED <<manager, fixed>>

\* handle_recording_finished -> transcribe_file, rejected as busy: the call
\* returns and the file it was handed stays where it is
RecordingFinishedBusy ==
    /\ ui.recording = "saving"
    /\ CanCall
    /\ Busy
    /\ ui' = [ui EXCEPT !.recording = "idle", !.rejected = "present"]
    /\ lastCall' = "transcribe_file:busy"
    /\ UNCHANGED <<manager, fixed>>

\* handle_recording_finished -> transcribe_file, below the reload threshold:
\* count and dispatch
RecordingFinishedDispatch ==
    /\ ui.recording = "saving"
    /\ CanCall
    /\ ~Busy
    /\ count + 1 < MODEL_RELOAD_INTERVAL
    /\ count < MaxRecordings
    /\ FreeSlots # {}
    /\ \E exists \in BOOLEAN : Dispatch(workers, model, exists)
    /\ count' = count + 1
    /\ sinceLoad' = Accepted(sinceLoad)
    /\ onHandle' = IF model = None THEN onHandle ELSE Counted(onHandle)
    /\ reloadOwed' = FALSE
    /\ ui' = [ui EXCEPT !.recording = "idle"]
    /\ lastCall' = "transcribe_file"
    /\ UNCHANGED <<model, custom_words, timer, live, mgr, loadFailed, fixed>>

\* handle_transcription_finished copying the text whatever it is
UIDeliverAlwaysCopying ==
    /\ mgr = "idle"
    /\ queue # <<>>
    /\ Head(queue).kind = "error" => ui.dialogs < MaxDialogs
    /\ timer' = IF Head(queue).kind = "finished" THEN TRUE ELSE timer
    /\ queue' = Tail(queue)
    /\ ui' = CASE Head(queue).kind = "finished" ->
                    [ui EXCEPT !.clipboard = Head(queue).text, !.progress_window = FALSE]
                [] Head(queue).kind = "error" -> [ui EXCEPT !.dialogs = @ + 1]
                [] OTHER -> ui
    /\ lastCall' = ""
    /\ UNCHANGED <<model, worker, count, custom_words, live, workers, mgr, sinceLoad,
                   loadFailed, onHandle, reloadOwed, fixed>>

\* The event loop delivers the oldest queued emission to the manager's
\* signals and through them to the handlers of the tray application:
\* update_processing_status, handle_transcription_error (which opens a modal
\* dialog, events going on being delivered under it), and
\* handle_transcription_finished; a finished emission also runs
\* _schedule_worker_cleanup
UIDeliver ==
    /\ mgr = "idle"
    /\ queue # <<>>
    /\ Head(queue).kind = "error" => ui.dialogs < MaxDialogs
    /\ timer' = IF Head(queue).kind = "finished" THEN TRUE ELSE timer
    /\ queue' = Tail(queue)
    /\ ui' = CASE Head(queue).kind = "finished" ->
                    [ui EXCEPT !.clipboard = IF Head(queue).text # <<>>
                                             THEN Head(queue).text ELSE @,
                               !.progress_window = FALSE]
                [] Head(queue).kind = "error" -> [ui EXCEPT !.dialogs = @ + 1]
                [] OTHER -> ui
    /\ lastCall' = ""
    /\ UNCHANGED <<model, worker, count, custom_words, live, workers, mgr, sinceLoad,
                   loadFailed, onHandle, reloadOwed, fixed>>

\* The user dismisses the error dialog: handle_transcription_error goes on
\* and closes the progress window
DismissError ==
    /\ ui.dialogs > 0
    /\ ui' = [ui EXCEPT !.dialogs = @ - 1, !.progress_window = FALSE]
    /\ lastCall' = ""
    /\ UNCHANGED <<manager, fixed>>

UINext ==
    \/ StartRecording
    \/ StopRecording
    \/ StopRecordingRaise
    \/ StartRecordingIgnored
    \/ StopRecordingIgnored
    \/ RecordingFinishedBusy
    \/ RecordingFinishedDispatch
    \/ WorkerStep
    \/ UIDeliver
    \/ DismissError
    \/ CleanupWorker

SpecUI == UIInit /\ [][UINext]_vars

----------------------------------------------------------------------------

(* The key listener: any key pressed (again, for key repeat) and any held  *)
(* key released, in any order                                               *)

KeysInit ==
    /\ shortcuts = NoShortcuts
    /\ ui = NoUI
    /\ stored = NothingStored
    /\ got = NoGet
    /\ model = Current
    /\ live = 1
    /\ worker = NoWorker
    /\ count = 0
    /\ sinceLoad = 0
    /\ onHandle = 0
    /\ reloadOwed = FALSE
    /\ loadFailed = FALSE
    /\ doc = NoDocument("missing")
    /\ custom_words = load_custom_words(doc)
    /\ made = "constructed"
    /\ decoded = Undrawn
    /\ timer = FALSE
    /\ workers = [s \in Slots |-> FreeWorker]
    /\ queue = <<>>
    /\ mgr = "idle"
    /\ lastCall = ""

\* What the key listener leaves alone
application == <<model, worker, count, custom_words, timer, live, workers, queue, mgr,
                 lastCall, sinceLoad, loadFailed, onHandle, reloadOwed, doc, made, decoded,
                 stored, got, ui>>

\* _on_press: the normalized key joins _current_keys, then each combination
\* is tested against them
OnPress ==
    \E key \in PhysicalKeys :
        LET cur == shortcuts.current \cup {normalize_key(key)}
        IN  /\ shortcuts' = [held |-> shortcuts.held \cup {key}, current |-> cur,
                             event |-> "press", emitted |-> Triggered(cur)]
            /\ UNCHANGED application

\* _on_release: the normalized key and the key itself leave _current_keys
OnRelease ==
    \E key \in shortcuts.held :
        /\ shortcuts' = [held |-> shortcuts.held \ {key},
                         current |-> (shortcuts.current \ {normalize_key(key)}) \ {key},
                         event |-> "release", emitted |-> {}]
        /\ UNCHANGED application

KeysNext == OnPress \/ OnRelease

SpecKeys == KeysInit /\ [][KeysNext]_vars

----------------------------------------------------------------------------

(* Properties of the transcription lifecycle *)

\* How lastCall records a transcribe_file call, and one that passed the busy
\* check
TranscribeFileCalls ==
    {"transcribe_file", "transcribe_file:busy", "transcribe_file:reloaded",
     "transcribe_file:raised", "transcribe_file:language"}
AcceptedCalls == TranscribeFileCalls \ {"transcribe_file:busy"}

\* run() has left its try and except blocks: every emission of the job is made
Ended(w) == workers[w].pc \in {"finally", "finished"}

\* The positions of the observations of o whose kind is in K
Kinds(o, K) == {i \in 1..Len(o) : o[i].kind \in K}

\* C1. A transcribe_file call made while the manager's worker is running is a
\* no-op: no worker is created, the usage counter, the model handle and the
\* worker reference are unchanged and no observation is emitted for the call;
\* and a call is rejected only while the worker is running.
C1_BusySubmitIsNoOp ==
    [][ /\ (Busy /\ lastCall' \in TranscribeFileCalls) => lastCall' = "transcribe_file:busy"
        /\ lastCall' = "transcribe_file:busy" =>
              /\ Busy
              /\ UNCHANGED <<model, worker, count, custom_words, timer, live,
                             workers, queue, mgr>> ]_vars

\* A rejected call has just returned, the worker it met still running
C1_BusySubmitMade == lastCall = "transcribe_file:busy" /\ Busy

\* C2 (as amended). Every job emits exactly one finished observation, and it
\* is the job's last observation; before it come progress observations and,
\* on the failure paths only, one error observation, immediately before the
\* finished one. A job still in its try block has emitted neither.
C2_OneFinishedLast ==
    \A w \in Slots :
        LET o == workers[w].obs
        IN  IF Ended(w)
            THEN /\ Kinds(o, {"finished"}) = {Len(o)}
                 /\ Kinds(o, {"error"}) \subseteq {Len(o) - 1}
                 /\ Kinds(o, {"error"}) = {} <=> workers[w].err = ""
            ELSE Kinds(o, {"finished", "error"}) = {}

\* A job has ended on the empty-result path
C2_EmptyResultJobEnded ==
    \E w \in Slots : Ended(w) /\ workers[w].err = "No text was transcribed"

\* C2 (as stated). Every job emits exactly one terminal observation, finished
\* or error, preceded by progress observations and followed by nothing.
C2_OneTerminalObservation ==
    \A w \in Slots :
        LET o == workers[w].obs
        IN  IF Ended(w)
            THEN Kinds(o, {"finished", "error"}) = {Len(o)}
            ELSE Kinds(o, {"finished", "error"}) = {}

\* C3. A job that fails (missing audio file, empty decode result, an exception
\* in the decode or the replacements) emits an error observation and then a
\* finished observation carrying the empty string; a finished observation
\* with non-empty text comes only from a job that emitted no error.
C3_ErrorThenEmptyFinished ==
    \A w \in Slots :
        Ended(w) =>
            LET o == workers[w].obs
                n == Len(o)
            IN  /\ workers[w].err # "" =>
                      /\ n >= 2
                      /\ o[n - 1] = Error(workers[w].err)
                      /\ o[n] = Finished(<<>>)
                /\ (\E i \in 1..n : o[i].kind = "finished" /\ o[i].text # <<>>) =>
                      Kinds(o, {"error"}) = {}

\* A job has ended on the missing-file path
C3_FailedJobEnded ==
    \E w \in Slots : Ended(w) /\ workers[w].err = "Audio file not found"

\* C4 (as amended). Once a worker has finished, its audio file no longer
\* exists, whether the job succeeded or failed, unless the removal itself
\* raised (which the worker logs and swallows).
C4_FileGoneUnlessRemoveFailed ==
    \A w \in Slots :
        workers[w].pc = "finished" => ~workers[w].file \/ workers[w].remove_failed

\* A failed job whose file existed has finished, the file removed
C4_FailedJobFileRemoved ==
    \E w \in Slots :
        /\ workers[w].pc = "finished"
        /\ workers[w].err \notin {"", "Audio file not found"}
        /\ ~workers[w].file

\* C4 (as stated). Once a worker has finished, its audio file no longer exists.
C4_FileGone == \A w \in Slots : workers[w].pc = "finished" => ~workers[w].file

\* What C5 says of a step that is an accepted transcribe_file call whose load,
\* if any, succeeds: it reloads exactly when it is the 50th since the last
\* load; the reload leaves the counter at zero and the new worker on the new
\* handle, the old handle released; the other calls leave the handle alone.
ReloadsAtFiftieth ==
    /\ sinceLoad + 1 = MODEL_RELOAD_INTERVAL <=> lastCall' = "transcribe_file:reloaded"
    /\ lastCall' = "transcribe_file:reloaded" =>
          /\ count' = 0
          /\ model' = Current
          /\ workers'[worker'].pc = "start" /\ workers'[worker'].model = Current
          /\ \A w \in Slots \ {worker'} : workers'[w].model # Current
    /\ lastCall' = "transcribe_file" =>
          /\ count' = count + 1
          /\ model' = model /\ live' = live
          /\ \A w \in Slots \ {worker'} :
                workers'[w].pc # "free" => workers'[w].model = workers[w].model

\* C5 (as amended). With no manual reload, no cleanup() and every model load
\* succeeding, the 50th accepted transcribe_file since the last (re)load
\* reloads the model before its worker is created, that worker is bound to
\* the new handle, and the counter is 0 after the reload; accepted calls 1 to
\* 49 trigger no reload. (The manager holds a handle exactly when no cleanup()
\* and no failed load has come since the last load.)
C5_ReloadAtFiftiethCall ==
    [][ (model # None /\ lastCall' \in {"transcribe_file", "transcribe_file:reloaded"})
            => ReloadsAtFiftieth ]_vars

\* The 50th call has just reloaded and dispatched
C5_ReloadedAtFiftieth ==
    /\ lastCall = "transcribe_file:reloaded"
    /\ count = 0
    /\ workers[worker].model = Current

\* C5 (as stated). With no manual reload and every model load succeeding, the
\* 50th accepted transcribe_file since the last (re)load reloads the model,
\* and accepted calls 1 to 49 do not.
C5_ReloadAtFiftiethCallAsStated ==
    [][ (~loadFailed /\ lastCall' \in {"transcribe_file", "transcribe_file:reloaded"})
            => ReloadsAtFiftieth ]_vars

\* C6. The model handle is not released or replaced while a worker bound to
\* it is still running: no running worker holds a released handle.
C6_NoReleaseUnderRunningWorker ==
    \A w \in Slots : IsRunning(w) => workers[w].model # Released

\* C7. At most one worker thread of the manager is running at any time.
C7_AtMostOneRunning == Cardinality({w \in Slots : IsRunning(w)}) <= 1

\* C8. Every transcribe_file call that is not rejected as busy results in a
\* job outcome, whatever the usage counter and the model handle: when the call
\* is over, the worker that will produce the outcome has been started for it.
C8_AcceptedCallStartsJob ==
    [][ lastCall' \in AcceptedCalls =>
            /\ worker' # NoWorker
            /\ workers'[worker'].pc = "start"
            /\ workers'[worker'].age = 0 ]_vars

\* C9. cleanup() is idempotent: after each call the manager has no model
\* handle and a usage counter of zero, and a cleanup() that follows a
\* cleanup() changes nothing.
C9_CleanupIdempotent ==
    [][ lastCall' \in {"cleanup", "cleanup:again"} =>
            /\ model' = None
            /\ count' = 0
            /\ mgr' = "idle"
            /\ lastCall' = "cleanup:again" =>
                  UNCHANGED <<model, worker, count, custom_words, timer, live,
                              workers, queue>> ]_vars

\* cleanup() has just returned for the second time in a row
C9_CleanedUpTwice == lastCall = "cleanup:again" /\ model = None /\ count = 0

\* C10. Whenever no manager operation is mid-execution, the usage counter
\* equals the number of transcriptions run on the current model handle since
\* that handle was loaded.
C10_CounterIsJobsOnHandle ==
    (mgr = "idle" /\ model # None) => count = onHandle

\* How lastCall records a reload_model call made by the caller
ReloadModelCalls == {"reload_model", "reload_model:busy", "reload_model:raised"}

C12_ReloadReleasesLoadsResets ==
    [][ /\ (~Busy /\ lastCall' \in ReloadModelCalls) => lastCall' # "reload_model:busy"
        /\ lastCall' = "reload_model" =>
              /\ model' = Current
              /\ count' = 0
              /\ live' = ReleasedLive + 1
              /\ \A w \in Slots : workers'[w].model # Current
        /\ lastCall' = "reload_model:raised" =>
              /\ model' = None
              /\ count' = count
              /\ live' = ReleasedLive
              /\ \A w \in Slots : workers'[w].model # Current ]_vars

\* A reload_model whose load failed has just raised, the counter not zero
C12_ReloadRaisedCounterKept ==
    lastCall = "reload_model:raised" /\ model = None /\ count > 0

\* C12 (as stated). Once reload_model, called with no running worker, returns
\* or raises, the usage counter is zero; if the load failed the manager has
\* no model handle.
C12_CounterZeroAfterReload ==
    [][ lastCall' \in {"reload_model", "reload_model:raised"} =>
            /\ count' = 0
            /\ lastCall' = "reload_model:raised" => model' = None ]_vars

\* The manager's last job failed and is over, on the handle the manager holds
LastJobFailed ==
    /\ worker # NoWorker
    /\ IsFinished(worker)
    /\ workers[worker].err # ""
    /\ workers[worker].model = Current

\* A step in which worker w catches an exception
Catches(w) == workers[w].err = "" /\ workers'[w].err # ""

\* What C13 says of a worker step that catches an exception: the failure is
\* emitted, the cleanup phase follows, and the manager is not touched
FailureStaysInWorker ==
    \A w \in Slots :
        Catches(w) =>
            /\ workers'[w].obs =
                  workers[w].obs \o <<Error(workers'[w].err), Finished(<<>>)>>
            /\ workers'[w].pc = "finally"
            /\ UNCHANGED <<model, worker, count, live, mgr>>

\* The transcribe_file call of this step is accepted and its worker runs on
\* the handle the manager held before the call
AcceptedOnSameHandle ==
    /\ lastCall' = "transcribe_file"
    /\ model' = model /\ live' = live
    /\ workers'[worker'].pc = "start"
    /\ workers'[worker'].model = Current

\* C13 (as amended). No exception raised in a worker's file validation,
\* decode or post-processing escapes the worker: it becomes a Failed outcome;
\* and after the job has ended the next transcribe_file is accepted and,
\* unless it is the call that reaches the reload threshold, runs on the same
\* model handle.
C13_FailureLeavesManagerUsable ==
    [][ /\ FailureStaysInWorker
        /\ (LastJobFailed /\ lastCall' \in TranscribeFileCalls) =>
              /\ lastCall' \in AcceptedCalls
              /\ count + 1 < MODEL_RELOAD_INTERVAL => AcceptedOnSameHandle ]_vars

\* A job that caught a decode exception is over and the manager, holding the
\* same handle, accepts the next call
C13_FailedJobOverCallAccepted ==
    /\ LastJobFailed
    /\ workers[worker].err = "decode"
    /\ ENABLED TranscribeFileDispatch

\* C13 (as stated). After a failed job has ended, the next transcribe_file is
\* accepted and runs on the same model handle.
C13_NextCallOnSameHandle ==
    [][ (LastJobFailed /\ lastCall' \in TranscribeFileCalls) => AcceptedOnSameHandle ]_vars

\* A document the claim calls malformed: no file, no JSON, no object, or an
\* object holding a key with a value of the wrong type
Malformed(d) ==
    \/ d.file # "object"
    \/ d.hotwords.type \notin {"absent", "str"}
    \/ d.replacements.type \notin {"absent", "dict"}
    \/ d.initial_prompt.type \notin {"absent", "str"}

\* C14. Constructing the manager never fails because of the custom-vocabulary
\* document, and for a missing file, unparsable JSON, or JSON of the wrong
\* shape or with fields of the wrong type the cached vocabulary is the
\* defaults and construction proceeds to the model load.
C14_VocabularyNeverFailsConstruction ==
    /\ made # "raised in load_custom_words"
    /\ (made # "new" /\ Malformed(doc)) => custom_words = DefaultVocabulary

\* C15. If the audio file does not exist when the worker starts, the worker
\* emits an error observation followed by finished(""), emits no progress
\* observation of its own (the job's only progress is the manager's
\* "Starting transcription..."), and goes to its cleanup phase without
\* reaching the decode call; a worker at the decode call found its file.
C15_MissingFileFailsAtOnce ==
    [][ \A w \in Slots :
          /\ workers[w].pc = "transcribe" => workers[w].file
          /\ (workers[w].pc = "start" /\ ~workers[w].file /\ workers'[w].pc # "start") =>
                /\ workers'[w].pc = "finally"
                /\ workers'[w].obs = <<Progress("Starting transcription..."),
                                       Error("Audio file not found"), Finished(<<>>)>>
                /\ Len(queue') = Len(queue) + 2
                /\ queue'[Len(queue') - 1].kind = "error"
                /\ queue'[Len(queue')].kind = "finished"
                /\ queue'[Len(queue')].text = <<>> ]_vars

\* A job whose file was missing is over, three observations made for it
C15_MissingFileJobOver ==
    \E w \in Slots :
        /\ workers[w].pc = "finished"
        /\ workers[w].err = "Audio file not found"
        /\ Len(workers[w].obs) = 3

\* The decode returned, and every segment's trimmed text is empty
NoTextDecoded ==
    /\ ~decoded.raised
    /\ \A i \in 1..Len(decoded.segments) : Strip(decoded.segments[i]) = <<>>

\* C16. A job whose decode gives no text (no segments, or only segments whose
\* trimmed text is empty) fails with "No text was transcribed": its
\* observations end with an error followed by finished(""), and it emits no
\* finished observation with non-empty text.
C16_NoTextIsFailure ==
    \A w \in Slots :
        (Ended(w) /\ NoTextDecoded) =>
            LET o == workers[w].obs
            IN  /\ workers[w].err = "No text was transcribed"
                /\ Len(o) >= 2
                /\ o[Len(o) - 1].kind = "error"
                /\ o[Len(o)] = Finished(<<>>)
                /\ \A i \in Kinds(o, {"finished"}) : o[i].text = <<>>

\* The first n segment texts, each without its leading and trailing
\* whitespace, in segment order with one space between neighbours
RECURSIVE TrimmedJoin(_, _)
TrimmedJoin(segs, n) ==
    IF n = 0 THEN <<>>
    ELSE IF n = 1 THEN Strip(segs[1])
    ELSE TrimmedJoin(segs, n - 1) \o <<" ">> \o Strip(segs[n])

\* Every occurrence of each pattern replaced by the replacement string as it
\* is written, pair after pair
RECURSIVE ReplacedLiterally(_, _)
ReplacedLiterally(text, pairs) ==
    IF pairs = <<>> THEN text
    ELSE ReplacedLiterally(SubFrom(text, 1, pairs[1][1], pairs[1][2]), Tail(pairs))

\* The decode returned segments whose joined text is not empty
TextDecoded ==
    /\ ~decoded.raised
    /\ TrimmedJoin(decoded.segments, Len(decoded.segments)) # <<>>

HelloWorld == << <<"H","e","l","l","o">>, <<"w","o","r","l","d">> >>

\* C17. A job whose decode returns non-empty text ends with one finished
\* observation, its last, carrying the segment texts, each trimmed, joined by
\* single spaces in segment order, with the vocabulary replacements applied
\* by apply_replacements; when apply_replacements raises on a replacement
\* string, the job fails instead: error, then finished(""). Segments
\* ["Hello", "world"] with no replacements give "Hello world".
C17_FinishedCarriesJoinedText ==
    \A w \in Slots :
        (Ended(w) /\ TextDecoded) =>
            LET o == workers[w].obs
                t == TrimmedJoin(decoded.segments, Len(decoded.segments))
                m == custom_words.replacements
                e == IF Truthy(m) THEN apply_replacements(t, m.value) ELSE t
            IN  /\ Cardinality(Kinds(o, {"finished"})) = 1
                /\ IF e = BadTemplate
                   THEN /\ o[Len(o) - 1].kind = "error"
                        /\ o[Len(o)] = Finished(<<>>)
                   ELSE /\ o[Len(o)] = Finished(e)
                        /\ Kinds(o, {"error"}) = {}
                /\ (decoded.segments = HelloWorld /\ ~Truthy(m)) =>
                        o[Len(o)] = Finished(<<"H","e","l","l","o"," ","w","o","r","l","d">>)

\* The job that decoded ["Hello", "world"] under a vocabulary without
\* replacements has ended and its finished observation is delivered
C17_HelloWorldFinished ==
    /\ Ended(1)
    /\ decoded.segments = HelloWorld
    /\ ~Truthy(custom_words.replacements)
    /\ workers[1].obs[Len(workers[1].obs)].kind = "finished"
    /\ queue = <<>>

\* C17 as stated: the finished observation of every job whose decode returns
\* non-empty text carries the joined text with every pattern replaced by its
\* replacement.
C17_FinishedCarriesReplacedText ==
    \A w \in Slots :
        (Ended(w) /\ TextDecoded) =>
            LET o == workers[w].obs
                t == TrimmedJoin(decoded.segments, Len(decoded.segments))
                m == custom_words.replacements
            IN  o[Len(o)] = Finished(IF Truthy(m) THEN ReplacedLiterally(t, m.value) ELSE t)

\* The job's replacements were applied and returned: it decoded non-empty
\* text under a vocabulary with replacements and caught nothing
Replaced(w) ==
    /\ Ended(w)
    /\ TextDecoded
    /\ Truthy(custom_words.replacements)
    /\ workers[w].err = ""

\* What apply_replacements returned to the job
Output(w) == workers[w].obs[Len(workers[w].obs)].text

LowerText(s) == [i \in 1..Len(s) |-> Lower(s[i])]

\* Some pattern of the mapping occurs in the text, in any letter case
Occurs(text, pairs) ==
    \E p \in 1..Len(pairs) : \E i \in 1..Len(text) + 1 : MatchesAt(text, i, pairs[p][1])

TehToThe == << << <<"t","e","h">>, <<"t","h","e">> >> >>
TheCat == <<"t","h","e"," ","c","a","t">>

C19_ReplacesLiterallyInOrder ==
    \A w \in Slots :
        (Ended(w) /\ TextDecoded) =>
            LET t == TrimmedJoin(decoded.segments, Len(decoded.segments))
                m == custom_words.replacements
            IN  /\ workers[w].err = ""
                /\ IF Truthy(m)
                   THEN /\ apply_replacements(t, m.value) = ReplacedLiterally(t, m.value)
                        /\ Output(w) = ReplacedLiterally(t, m.value)
                   ELSE Output(w) = t

\* The calls that have just released the manager's handle and left it
\* without one
CleanupCalls == {"cleanup", "cleanup:again"}
FailedLoads == {"reload_model:raised", "transcribe_file:raised"}
Reloads == {"reload_model", "transcribe_file:reloaded"}

\* C20. No two model handles of the manager coexist: at most one handle is
\* loaded, and it is the one the manager holds; a reload has released the
\* handle it replaces, which the workers constructed with it keep released;
\* and the manager is left without a handle only by cleanup() or by a reload
\* whose load raised.
C20_OneHandleUnlessLoadFailed ==
    [][ /\ live' <= 1
        /\ (model' = Current) <=> (live' = 1)
        /\ (model = Current /\ model' = None) => lastCall' \in CleanupCalls \cup FailedLoads
        /\ lastCall' \in Reloads =>
              \A w \in Slots :
                  ( /\ workers[w].model = Current
                    /\ workers'[w].pc # "free"
                    /\ (lastCall' = "reload_model" \/ w # worker') )
                  => workers'[w].model = Released ]_vars

\* reload_model has just returned with one handle loaded while a worker
\* object still holds the handle it released
C20_ReloadedOverOldHandle ==
    /\ lastCall = "reload_model"
    /\ live = 1
    /\ model = Current
    /\ \E w \in Slots : workers[w].pc # "free" /\ workers[w].model = Released

\* C20 as stated: at most one handle is loaded, and from construction on the
\* manager gives up its handle only in cleanup().
C20_OneHandleUntilCleanup ==
    [][ /\ live' <= 1
        /\ (model = Current /\ model' = None) => lastCall' \in CleanupCalls ]_vars

\* C21. cleanup() always terminates: the wait for a running worker can end
\* whatever the worker does, and does end; cleanup() then releases the model
\* handle, drops the worker reference and sets the usage counter to zero,
\* the worker finished or not.
C21_CleanupTerminates ==
    /\ [](mgr = "cleanup_wait" => ENABLED CleanupWaitReturn)
    /\ [][ (mgr = "cleanup_wait" /\ mgr' # "cleanup_wait") =>
              /\ mgr' = "idle"
              /\ lastCall' \in CleanupCalls
              /\ model' = None
              /\ live' = 0
              /\ worker' = NoWorker
              /\ count' = 0 ]_vars
    /\ (mgr = "cleanup_wait" ~> mgr = "idle")

\* cleanup() has returned while the worker it waited for is still running
C21_CleanupOverRunningWorker ==
    /\ lastCall \in CleanupCalls
    /\ model = None
    /\ count = 0
    /\ worker = NoWorker
    /\ \E w \in Slots : IsRunning(w)

\* C22. The worker's cleanup phase runs for every job, failed or not: a
\* running job leaves its try and except blocks only into the finally block,
\* which can always run, and ends only through it. The finally block raises
\* nothing and emits nothing, whether the file is removed or not: no
\* observation is queued and the job's observations and outcome stay as
\* they were.
C22_FinallyRunsAndIsSilent ==
    /\ [](\A w \in Slots : workers[w].pc = "finally" => ENABLED W_Finally(w))
    /\ [][ \A w \in Slots :
              /\ workers[w].pc = "start" => workers'[w].pc \in {"start", "transcribe", "finally"}
              /\ workers[w].pc = "transcribe" => workers'[w].pc \in {"transcribe", "finally"}
              /\ (workers[w].pc = "finally" /\ workers'[w].pc # "finally") =>
                    /\ workers'[w].pc \in {"finished", "free"}
                    /\ queue' = queue
                    /\ workers'[w].pc = "finished" =>
                          /\ workers'[w].obs = workers[w].obs
                          /\ workers'[w].err = workers[w].err ]_vars

\* A job that failed has been through the finally block, which could not
\* remove the file; its last observation is still the empty finished
C22_FailedJobRemovalFailed ==
    \E w \in Slots :
        /\ workers[w].pc = "finished"
        /\ workers[w].err # ""
        /\ workers[w].remove_failed
        /\ workers[w].obs[Len(workers[w].obs)] = Finished(<<>>)

\* C24. Settings.get('model', d) returns d whenever the stored value is not
\* one of the six valid model names; Settings.get('language', d) returns a
\* valid language in every case, 'auto' whenever the stored value (d, when
\* nothing is stored) is not a valid language code.
C24_InvalidSettingFallsBack ==
    /\ (got.key = "model" /\ ~InValidModels(got.value)) => got.result = got.default
    /\ got.key = "language" =>
          /\ InValidLanguages(got.result)
          /\ ~InValidLanguages(IF got.value = Absent THEN got.default ELSE got.value)
                => got.result = Str("auto")

\* C23. In every decode call a worker makes, the language option is null
\* exactly when the language configured for the job is 'auto' and is the
\* language code otherwise, the beam width is 1 and voice-activity filtering
\* is on; the hotwords are passed exactly when the cached hotwords are not
\* empty, the initial prompt exactly when the cached initial prompt is not
\* empty. The language configured for a job is what Settings.get returned
\* when the job was submitted.
C23_DecodeOptions ==
    /\ [](\A w \in Slots :
            workers[w].kwargs.made =>
                LET k == workers[w].kwargs
                    l == workers[w].language
                IN  /\ (k.language = Null) <=> (l = Str("auto"))
                    /\ k.language # Null => (k.language = l /\ InValidLanguages(l))
                    /\ k.beam_size = 1
                    /\ k.vad_filter = TRUE
                    /\ (k.hotwords # Absent) <=> Truthy(custom_words.hotwords)
                    /\ k.hotwords # Absent => k.hotwords = custom_words.hotwords
                    /\ (k.initial_prompt # Absent) <=> Truthy(custom_words.initial_prompt)
                    /\ k.initial_prompt # Absent => k.initial_prompt = custom_words.initial_prompt)
    /\ [][ lastCall' \in AcceptedCalls =>
              workers'[worker'].language =
                  IF InValidLanguages(stored.language) THEN stored.language ELSE Str("auto") ]_vars

\* A job submitted under the language 'en' has made its decode call with
\* that language and the hotwords, and without an initial prompt
C23_DecodedInEnglishWithHotwords ==
    \E w \in Slots :
        /\ workers[w].kwargs.made
        /\ workers[w].kwargs.language = Str("en")
        /\ workers[w].kwargs.hotwords = Str(<<"t", "e", "h">>)
        /\ workers[w].kwargs.initial_prompt = Absent
        /\ Ended(w)

\* C25. The clipboard is set only by the delivery of a finished observation
\* carrying non-empty text, and then to that text; a finished observation
\* carrying the empty string leaves the clipboard as it is; and every
\* finished observation delivered leaves the progress window closed.
C25_ClipboardOnlyOnText ==
    [][ LET delivered == queue # <<>> /\ queue' = Tail(queue)
            e == Head(queue)
        IN  /\ ui'.clipboard # ui.clipboard =>
                  (delivered /\ e.kind = "finished" /\ e.text # <<>>)
            /\ (delivered /\ e.kind = "finished") =>
                  /\ ~ui'.progress_window
                  /\ ui'.clipboard = IF e.text # <<>> THEN e.text ELSE ui.clipboard ]_vars

\* The finished observation of an empty result was delivered under an open
\* progress window after an earlier job's text had reached the clipboard: the
\* window is closed and the clipboard still holds that text
C25_EmptyFinishedDelivered ==
    /\ ui.clipboard = <<"U", "m">>
    /\ ~ui.progress_window
    /\ queue = <<>>
    /\ worker # NoWorker
    /\ Ended(worker)
    /\ workers[worker].obs[Len(workers[worker].obs)] = Finished(<<>>)

\* C26. A transcribe_file call is accepted only once the terminal observation
\* of the job before it has been delivered to the UI handlers: when a call is
\* accepted, and its "Starting transcription..." progress delivered, no
\* finished observation of an earlier job is still waiting for delivery.
C26_AcceptedAfterTerminalDelivered ==
    [][ lastCall' \in AcceptedCalls =>
            \A i \in 1..Len(queue) : queue[i].kind # "finished" ]_vars

\* C27. A transcribe_file call rejected because a worker is running leaves
\* the audio file it was handed where it is: the file is there when the call
\* returns, the call changes no worker, and no later step of the manager, of
\* a worker or of the UI handlers removes it.
C27_RejectedFileUntouched ==
    [][ /\ lastCall' = "transcribe_file:busy" =>
              (ui'.rejected = "present" /\ workers' = workers)
        /\ ui.rejected = "present" => ui'.rejected = "present" ]_vars

\* A call was rejected, and the worker that was running then has since
\* ended, removed its own file and had its observations delivered
C27_RejectedFileOutlivesJob ==
    /\ ui.rejected = "present"
    /\ worker # NoWorker
    /\ workers[worker].pc = "finished"
    /\ ~workers[worker].file
    /\ queue = <<>>

\* C28. No model handle is bound to more than MODEL_RELOAD_INTERVAL workers:
\* the workers dispatched on the handle the manager holds, counted from its
\* load, never exceed 50, whatever calls are accepted and rejected.
C28_AtMostFiftyWorkersPerHandle == onHandle <= MODEL_RELOAD_INTERVAL

\* The handle loaded by a reload inside transcribe_file has its fiftieth
\* worker, and the next accepted call will reload
C28_FiftiethWorkerOnHandle ==
    /\ onHandle = MODEL_RELOAD_INTERVAL
    /\ reloadOwed = FALSE
    /\ count = MODEL_RELOAD_INTERVAL - 1
    /\ model = Current
    /\ lastCall = "transcribe_file"

\* A step that creates a worker, and the step of a transcribe_file call that
\* load_model's exception leaves
Created == \E s \in Slots : workers'[s].pc = "start" /\ workers[s].pc # "start"
Raised == lastCall' = "transcribe_file:raised" /\ count' # count

\* C29 (as stated). When the reload inside transcribe_file fails to load the
\* model, the call creates no worker, and the next accepted transcribe_file
\* attempts the load again before it dispatches its worker, unless the caller's
\* reload_model() has loaded a handle since, so that its worker is not
\* dispatched on a missing handle.
C29_NextAcceptedCallLoadsAgain ==
    [][ /\ Raised => (~Created /\ worker' = worker /\ model' = None)
        /\ (reloadOwed /\ Created) =>
              /\ lastCall' = "transcribe_file:reloaded" \/ model # None
              /\ workers'[worker'].model = Current ]_vars

\* C29 (as amended). When the reload inside transcribe_file fails to load the
\* model, the call creates no worker and leaves the usage counter at or above
\* the threshold, where it stays until cleanup(), a reload_model() that loads
\* or a transcribe_file that reloads sets it to zero; while it is at or above
\* the threshold every accepted transcribe_file attempts the load again, and
\* none dispatches a worker on a missing handle.
C29_LoadsAgainWhileCounterAtThreshold ==
    [][ /\ Raised =>
              /\ ~Created /\ worker' = worker /\ model' = None
              /\ count' >= MODEL_RELOAD_INTERVAL
        /\ (count >= MODEL_RELOAD_INTERVAL /\ count' # count) =>
              \/ lastCall' = "transcribe_file:raised" /\ ~Created /\ model' = None
              \/ lastCall' = "transcribe_file:reloaded" /\ Created /\ count' = 0
                    /\ workers'[worker'].model = Current
              \/ lastCall' \in {"cleanup", "cleanup:again", "reload_model"} /\ count' = 0
        /\ (count >= MODEL_RELOAD_INTERVAL /\ Created) =>
              /\ lastCall' = "transcribe_file:reloaded"
              /\ workers'[worker'].model = Current ]_vars

\* The call after the one whose reload failed attempted the load again, which
\* failed again
C29_LoadAttemptedAgain ==
    /\ lastCall = "transcribe_file:raised"
    /\ count = MODEL_RELOAD_INTERVAL + 1
    /\ model = None
    /\ reloadOwed

\* The observations os end with an error observation and then finished("")
EndsAsFailure(os) ==
    /\ Len(os) >= 2
    /\ os[Len(os) - 1].kind = "error"
    /\ os[Len(os)] = Finished(<<>>)
    /\ \A i \in 1..(Len(os) - 1) : os[i].kind # "finished"

\* C30. When the manager has no model handle after cleanup(), a transcribe_file
\* call (no worker running, the counter short of the threshold) returns
\* without raising, having incremented the usage counter and dispatched a
\* worker on no handle; a job on no handle ends as a failure, an error
\* observation and then finished(""), and once its worker has finished its
\* audio file is gone.
C30_NoHandleCallDispatchesFailingJob ==
    [][ /\ ( /\ model = None /\ ~Busy /\ count + 1 < MODEL_RELOAD_INTERVAL
             /\ lastCall' \in TranscribeFileCalls ) =>
              /\ lastCall' = "transcribe_file"
              /\ count' = count + 1
              /\ Created
              /\ workers'[worker'].model = None
        /\ \A w \in Slots :
              (workers'[w].model = None /\ workers'[w].pc \in {"finally", "finished"}) =>
                  (workers'[w].err # "" /\ EndsAsFailure(workers'[w].obs))
        /\ \A w \in Slots :
              (workers'[w].model = None /\ workers'[w].pc = "finished") =>
                  ~workers'[w].file ]_vars

\* How lastCall records the handlers of the start and stop triggers: the
\* start hotkey, the stop hotkey and the stop button, the tray click and the
\* menu entry
TriggerCalls == {"start_recording", "stop_recording", "toggle_recording"}

HeldKeys == {normalize_key(key) : key \in shortcuts.held}

\* C32. After any sequence of key presses and releases _current_keys is the
\* set of normalized keys that are physically held, and a key press emits the
\* start (stop) signal exactly when every key of the start (stop) combination
\* is held.
C32_CurrentKeysAreHeldKeys ==
    /\ shortcuts.current = HeldKeys
    /\ shortcuts.event = "press" =>
          /\ "start_recording_triggered" \in shortcuts.emitted <=> StartKeys \subseteq HeldKeys
          /\ "stop_recording_triggered" \in shortcuts.emitted <=> StopKeys \subseteq HeldKeys

\* C33. _cleanup_worker clears the manager's worker reference only when the
\* worker it references has finished, and otherwise leaves the reference and
\* every worker as they are: it drops no running worker, also when the timer
\* an earlier job armed fires while the next job's worker is running.
C33_CleanupWorkerKeepsRunningWorker ==
    [][ lastCall' = "cleanup_worker" =>
            /\ worker' # worker =>
                  (worker # NoWorker /\ IsFinished(worker) /\ worker' = NoWorker)
            /\ (worker # NoWorker /\ IsFinished(worker)) => worker' = NoWorker
            /\ \A s \in Slots : IsRunning(s) => workers'[s] = workers[s] ]_vars

\* The timer an earlier job armed has just fired while the worker of the
\* next job, which has not emitted its finished observation yet, is running
C33_TimerFiredUnderNextJob ==
    /\ lastCall = "cleanup_worker"
    /\ worker # NoWorker
    /\ workers[worker].pc \in {"start", "transcribe"}
    /\ ~timer

====
